---- MODULE Spec2Model ----
(***************************************************************************)
(* Model of takiyasha/algorithms/qmc/ciphers.py: the TEA block cipher      *)
(* (QMC_TEACipher), the chained TEA envelope (TC_TEACipher), the static    *)
(* and dynamic mask ciphers (QMCv1_StaticMapCipher,                        *)
(* QMCv2_DynamicMapCipher) and the segmented RC4 cipher (QMCv2_RC4Cipher). *)
(*                                                                         *)
(* A byte is a number in 0..255 and a byte string a sequence of bytes.     *)
(* A 32-bit word is a pair <<hi, lo>> of 16-bit halves, its value being    *)
(* hi * 65536 + lo: the model checker's integers are narrower than the     *)
(* products and sums the TEA round forms, and every operation below is     *)
(* the source's operation reduced modulo 2^32 (the source masks with       *)
(* 0xffffffff after each round, and +, -, << and ^ commute with that       *)
(* reduction).                                                             *)
(***************************************************************************)
EXTENDS Integers, Sequences, FiniteSets, TLC

VARIABLES
    cipher,     \* the constructed instance (a record), or NoCipher
    ctor,       \* the last constructor call: its class, arguments and exception
    calls,      \* the finished decrypt and encrypt calls, oldest first
    tc,         \* TC_TEACipher.decrypt: the locals of the call in progress
    inflight    \* QMCv2_RC4Cipher: the locals of the calls in progress

vars == <<cipher, ctor, calls, tc, inflight>>

--------------------------------------------------------------------------
(* Bits, bytes and words *)

Half == 65536

\* a ^ b on numbers below 2^n, bit by bit
RECURSIVE XorBits(_, _, _)
XorBits(a, b, n) ==
    IF n = 0 THEN 0
    ELSE ((a + b) % 2) + 2 * XorBits(a \div 2, b \div 2, n - 1)

\* a ^ b on 4-bit numbers, tabulated once
Xor4 == [a \in 0..15 |-> [b \in 0..15 |-> XorBits(a, b, 4)]]

\* a ^ b on bytes
Xor8(a, b) == Xor4[a \div 16][b \div 16] * 16 + Xor4[a % 16][b % 16]

\* a ^ b on 16-bit numbers
Xor16(a, b) == Xor8(a \div 256, b \div 256) * 256 + Xor8(a % 256, b % 256)

\* a & b on numbers below 2^n, bit by bit
RECURSIVE AndBits(_, _, _)
AndBits(a, b, n) ==
    IF n = 0 THEN 0
    ELSE ((a % 2) * (b % 2)) + 2 * AndBits(a \div 2, b \div 2, n - 1)

\* a | b on numbers below 2^n, bit by bit
RECURSIVE OrBits(_, _, _)
OrBits(a, b, n) ==
    IF n = 0 THEN 0
    ELSE (IF a % 2 = 1 \/ b % 2 = 1 THEN 1 ELSE 0)
         + 2 * OrBits(a \div 2, b \div 2, n - 1)

\* (a + b) & 0xffffffff
Add32(a, b) ==
    LET lo == a[2] + b[2]
        hi == a[1] + b[1] + (lo \div Half)
    IN  <<hi % Half, lo % Half>>

\* (a - b) & 0xffffffff
Sub32(a, b) ==
    LET lo == a[2] - b[2]
        hi == a[1] - b[1] - (IF lo < 0 THEN 1 ELSE 0)
    IN  <<hi % Half, lo % Half>>

\* (a ^ b) on 32-bit words
Xor32(a, b) == <<Xor16(a[1], b[1]), Xor16(a[2], b[2])>>

\* (a << 4) & 0xffffffff
Shl4(a) == <<(a[1] * 16 + (a[2] \div 4096)) % Half, (a[2] * 16) % Half>>

\* a >> 5, a below 2^32
Shr5(a) == <<a[1] \div 32, (a[1] % 32) * 2048 + (a[2] \div 32)>>

\* (a * m) & 0xffffffff for a small non-negative m
MulSmall32(a, m) ==
    LET lo == a[2] * m
        hi == a[1] * m + (lo \div Half)
    IN  <<hi % Half, lo % Half>>

\* struct.Struct('>L').unpack on the four bytes b[from], ..., b[from + 3]
BE_Uint32(b, from) ==
    <<b[from] * 256 + b[from + 1], b[from + 2] * 256 + b[from + 3]>>

\* the four bytes (value >> 24) % 256, ..., value % 256
put_uint32(value) ==
    <<value[1] \div 256, value[1] % 256, value[2] \div 256, value[2] % 256>>

\* src[lo:hi] of Python, on 0-based positions lo <= hi
Slice(src, lo, hi) ==
    LET a == IF lo > Len(src) THEN Len(src) ELSE lo
        b == IF hi > Len(src) THEN Len(src) ELSE hi
    IN  IF b <= a THEN <<>> ELSE [i \in 1..(b - a) |-> src[a + i]]

--------------------------------------------------------------------------
(* QMC_TEACipher and TC_TEACipher: the TEA block transform *)

\* magic_number = 0x9e3779b9, as its two halves 0x9e37 and 0x79b9
DeltaHi == 40503
DeltaLo == 31161
delta_default == <<DeltaHi, DeltaLo>>

NoCipher == [cls |-> "none"]

\* one iteration of the decryption loop: s is <<v0, v1, ciphersum>>
TeaDecRound(s, k, delta) ==
    LET v0 == s[1]
        v1 == Sub32(s[2], Xor32(Xor32(Add32(Shl4(v0), k[3]), Add32(v0, s[3])),
                                Add32(Shr5(v0), k[4])))
        w0 == Sub32(v0, Xor32(Xor32(Add32(Shl4(v1), k[1]), Add32(v1, s[3])),
                              Add32(Shr5(v1), k[2])))
    IN  <<w0, v1, Sub32(s[3], delta)>>

\* the encryption iteration with ciphersum advanced after the two updates
\* instead of before them
TeaEncRound_late_sum(s, k, delta) ==
    LET sum == s[3]
        v0 == Add32(s[1], Xor32(Xor32(Add32(Shl4(s[2]), k[1]), Add32(s[2], sum)),
                                Add32(Shr5(s[2]), k[2])))
        v1 == Add32(s[2], Xor32(Xor32(Add32(Shl4(v0), k[3]), Add32(v0, sum)),
                                Add32(Shr5(v0), k[4])))
    IN  <<v0, v1, Add32(sum, delta)>>

\* one iteration of the encryption loop: s is <<v0, v1, ciphersum>>
TeaEncRound(s, k, delta) ==
    LET sum == Add32(s[3], delta)
        v0 == Add32(s[1], Xor32(Xor32(Add32(Shl4(s[2]), k[1]), Add32(s[2], sum)),
                                Add32(Shr5(s[2]), k[2])))
        v1 == Add32(s[2], Xor32(Xor32(Add32(Shl4(v0), k[3]), Add32(v0, sum)),
                                Add32(Shr5(v0), k[4])))
    IN  <<v0, v1, sum>>

\* the loops run for i in range(rounds // 2); each state is worked out
\* (t = t) before the next iteration starts
RECURSIVE TeaDecLoop(_, _, _, _)
TeaDecLoop(s, k, delta, n) ==
    IF n <= 0 THEN s
    ELSE LET t == TeaDecRound(s, k, delta)
         IN  IF t = t THEN TeaDecLoop(t, k, delta, n - 1) ELSE s

RECURSIVE TeaEncLoop(_, _, _, _)
TeaEncLoop(s, k, delta, n) ==
    IF n <= 0 THEN s
    ELSE LET t == TeaEncRound(s, k, delta)
         IN  IF t = t THEN TeaEncLoop(t, k, delta, n - 1) ELSE s

\* k0, k1, k2, k3 of _get_values_from_src_data
KeyWords(key) ==
    <<BE_Uint32(key, 1), BE_Uint32(key, 5), BE_Uint32(key, 9), BE_Uint32(key, 13)>>

\* rounds // 2 of Python: the floor, also of a negative count
HalfRounds(rounds) == rounds \div 2

\* the block transform shared by QMC_TEACipher.decrypt and
\* TC_TEACipher.original_tea_decrypt, on a source of at least 8 bytes
tea_decrypt_block(key, rounds, delta, src) ==
    LET n == HalfRounds(rounds)
        sum0 == IF n <= 0 THEN <<0, 0>> ELSE MulSmall32(delta, n)
        s == TeaDecLoop(<<BE_Uint32(src, 1), BE_Uint32(src, 5), sum0>>,
                        KeyWords(key), delta, n)
    IN  put_uint32(s[1]) \o put_uint32(s[2])

tea_encrypt_block(key, rounds, delta, src) ==
    LET s == TeaEncLoop(<<BE_Uint32(src, 1), BE_Uint32(src, 5), <<0, 0>>>>,
                        KeyWords(key), delta, HalfRounds(rounds))
    IN  put_uint32(s[1]) \o put_uint32(s[2])

--------------------------------------------------------------------------
(* Arguments the callers pass *)

\* a key argument: None, or a byte string
NoneKey == [isNone |-> TRUE, bytes |-> <<>>]
BytesKey(b) == [isNone |-> FALSE, bytes |-> b]

\* the byte string of n bytes (a * i + b) % 256, i = 1..n
Pattern(n, a, b) == [i \in 1..n |-> (a * i + b) % 256]

\* key lengths offered to the TEA constructors: 16 and lengths around it
TeaKeyLens == {0, 15, 16, 17}
TeaKeyArgs ==
    {NoneKey} \cup {BytesKey(Pattern(n, p[1], p[2])) :
                       n \in TeaKeyLens, p \in {<<0, 0>>, <<17, 3>>, <<0, 255>>}}
RoundsArgs == {-1, 0, 1, 2, 3, 64}
MagicArgs == {delta_default, <<0, 1>>}

\* sources offered to QMC_TEACipher.decrypt and encrypt
TeaBlocks ==
    {Pattern(8, p[1], p[2]) :
        p \in {<<0, 0>>, <<0, 255>>, <<1, 0>>, <<37, 11>>, <<255, 128>>}}
    \cup {Pattern(7, 1, 0), <<>>, Pattern(9, 1, 0)}

\* how many calls one run makes on an instance
MaxOps == 2

--------------------------------------------------------------------------
(* Constructors *)

\* Cipher.__init__ of ..common: keeps the key; key_length is its length
Cipher_init(key) == [key |-> key.bytes, key_length |-> Len(key.bytes)]

\* the result of a constructor: the exception raised, or the instance
Raised(exc) == [exc |-> exc, self |-> NoCipher]
Built(self) == [exc |-> "none", self |-> self]

\* the constructor without its check of the round count
QMC_TEACipher_init_any_rounds(key, rounds, magic_number) ==
    IF key.isNone THEN Raised("TypeError")
    ELSE LET base == Cipher_init(key)
         IN  IF base.key_length # 16 THEN Raised("CipherGenerationError")
             ELSE Built([cls |-> "QMC_TEACipher", key |-> base.key,
                         key_length |-> base.key_length,
                         delta |-> magic_number, rounds |-> rounds])

QMC_TEACipher_init(key, rounds, magic_number) ==
    IF key.isNone THEN Raised("TypeError")
    ELSE LET base == Cipher_init(key)
         IN  IF base.key_length # 16 THEN Raised("CipherGenerationError")
             ELSE IF rounds % 2 = 1 THEN Raised("CipherGenerationError")
             ELSE Built([cls |-> "QMC_TEACipher", key |-> base.key,
                         key_length |-> base.key_length,
                         delta |-> magic_number, rounds |-> rounds])

TC_TEACipher_init(key, rounds, magic_number) ==
    IF key.isNone THEN Raised("TypeError")
    ELSE LET base == Cipher_init(key)
         IN  IF base.key_length # 16 THEN Raised("CipherGenerationError")
             ELSE IF rounds % 2 = 1 THEN Raised("CipherGenerationError")
             ELSE Built([cls |-> "TC_TEACipher", key |-> base.key,
                         key_length |-> base.key_length,
                         delta |-> magic_number, rounds |-> rounds,
                         salt_len |-> 2, zero_len |-> 7])

NoCtor == [cls |-> "none"]

\* a constructor call: the arguments are kept, the instance exists only
\* when no exception was raised
Construct(cls, args, r) ==
    /\ ctor = NoCtor
    /\ ctor' = [cls |-> cls, args |-> args, exc |-> r.exc]
    /\ cipher' = r.self
    /\ UNCHANGED <<calls, tc, inflight>>

ConstructQMC_TEA ==
    \E key \in TeaKeyArgs, rounds \in RoundsArgs, magic \in MagicArgs :
        Construct("QMC_TEACipher", [key |-> key, rounds |-> rounds],
                  QMC_TEACipher_init(key, rounds, magic))

ConstructTC_TEA ==
    \E key \in TeaKeyArgs, rounds \in RoundsArgs, magic \in MagicArgs :
        Construct("TC_TEACipher", [key |-> key, rounds |-> rounds],
                  TC_TEACipher_init(key, rounds, magic))

--------------------------------------------------------------------------
(* QMC_TEACipher.decrypt and encrypt *)

\* the result of a call: the exception raised, or the bytes returned
Fails(exc) == [exc |-> exc, out |-> <<>>]
Returns(out) == [exc |-> "none", out |-> out]

\* struct unpacks src[:4] and src[4:8]: each must hold exactly 4 bytes
QMC_TEA_decrypt(self, src_data) ==
    IF Len(src_data) < 8 THEN Fails("struct.error")
    ELSE Returns(tea_decrypt_block(self.key, self.rounds, self.delta, src_data))

QMC_TEA_encrypt(self, src_data) ==
    IF Len(src_data) < 8 THEN Fails("struct.error")
    ELSE Returns(tea_encrypt_block(self.key, self.rounds, self.delta, src_data))

\* the sources a caller passes next: a fresh one, or the last call's output
NextSources(fresh) ==
    IF calls = <<>> THEN fresh
    ELSE IF calls[Len(calls)].exc = "none" THEN {calls[Len(calls)].out}
    ELSE {}

Called(op, src, offset, r) ==
    /\ calls' = Append(calls, [op |-> op, src |-> src, offset |-> offset,
                               exc |-> r.exc, out |-> r.out])
    /\ UNCHANGED <<ctor, tc, inflight>>

TeaDecrypt ==
    /\ cipher.cls = "QMC_TEACipher"
    /\ Len(calls) < MaxOps
    /\ \E src \in NextSources(TeaBlocks) :
          Called("decrypt", src, 0, QMC_TEA_decrypt(cipher, src))
    /\ UNCHANGED cipher

TeaEncrypt ==
    /\ cipher.cls = "QMC_TEACipher"
    /\ Len(calls) < MaxOps
    /\ \E src \in NextSources(TeaBlocks) :
          Called("encrypt", src, 0, QMC_TEA_encrypt(cipher, src))
    /\ UNCHANGED cipher

--------------------------------------------------------------------------
(* TC_TEACipher.decrypt, one loop iteration at a time *)

NoCall == [pc |-> "idle"]

original_tea_decrypt(self, src) ==
    tea_decrypt_block(self.key, self.rounds, self.delta, src)

\* strxor of Cryptodome: the operands must be of equal length
strxor(a, b) == [j \in 1..Len(a) |-> Xor8(a[j], b[j])]

\* the locals of decrypt before any is assigned; blocks counts the
\* crypt_block calls
TcLocals(src) ==
    [pc |-> "start", src |-> src, dest_data |-> <<>>, pad_len |-> 0,
     out_buffer_len |-> 0, allocated |-> FALSE, out_buffer |-> <<>>,
     src_pos |-> 0, iv_prev |-> <<>>, iv_cur |-> <<>>, dest_idx |-> 0,
     i |-> 0, out_buffer_pos |-> 0, blocks |-> 0,
     at |-> "start", exc |-> "none", msg |-> "", returned |-> FALSE,
     ret |-> <<>>]

\* `raise exc(msg)` and `return ret`; at keeps the loop the call ended in
TcRaise(t, exc, msg) ==
    [t EXCEPT !.pc = "done", !.at = t.pc, !.exc = exc, !.msg = msg]

TcReturn(t, ret) ==
    [t EXCEPT !.pc = "done", !.at = t.pc, !.returned = TRUE, !.ret = ret]

\* decrypt up to the first loop: the two size checks, the first block,
\* the pad length check, the output buffer and the positions
\* the head of decrypt with "too small" meaning below one block, not two
TcBegin_one_block(self, src) ==
    LET t == TcLocals(src)
        src_len == Len(src)
    IN  IF src_len % 8 # 0
        THEN TcRaise(t, "DecryptionError", "not a multiple of the block size")
        ELSE IF src_len < 8
        THEN TcRaise(t, "DecryptionError", "too small")
        ELSE LET dest_data == original_tea_decrypt(self, src)
                 pad_len == AndBits(dest_data[1], 7, 8)
                 out_buffer_len ==
                     src_len - pad_len - self.salt_len - self.zero_len - 1
                 u == [t EXCEPT !.dest_data = dest_data, !.pad_len = pad_len,
                                !.out_buffer_len = out_buffer_len]
             IN  IF pad_len + self.salt_len # 8
                 THEN TcRaise(u, "DecryptionError", "invalid pad len")
                 ELSE [u EXCEPT !.pc = "salt", !.allocated = TRUE,
                                !.out_buffer = [j \in 1..out_buffer_len |-> 0],
                                !.src_pos = 8, !.dest_idx = pad_len + 1,
                                !.i = 1]

TcBegin(self, src) ==
    LET t == TcLocals(src)
        src_len == Len(src)
    IN  IF src_len % 8 # 0
        THEN TcRaise(t, "DecryptionError", "not a multiple of the block size")
        ELSE IF src_len < 16
        THEN TcRaise(t, "DecryptionError", "too small")
        ELSE LET dest_data == original_tea_decrypt(self, src)
                 pad_len == AndBits(dest_data[1], 7, 8)
                 out_buffer_len ==
                     src_len - pad_len - self.salt_len - self.zero_len - 1
                 u == [t EXCEPT !.dest_data = dest_data, !.pad_len = pad_len,
                                !.out_buffer_len = out_buffer_len]
             IN  IF pad_len + self.salt_len # 8
                 THEN TcRaise(u, "DecryptionError", "invalid pad len")
                 ELSE [u EXCEPT !.pc = "salt", !.allocated = TRUE,
                                !.out_buffer = [j \in 1..out_buffer_len |-> 0],
                                !.src_pos = 8, !.dest_idx = pad_len + 1,
                                !.i = 1]

\* crypt_block: the next 8 source bytes become iv_cur, the old iv_cur
\* becomes iv_prev, and dest_data the TEA decryption of dest_data ^ iv_cur
crypt_block(self, t) ==
    LET iv_cur == Slice(t.src, t.src_pos, t.src_pos + 8)
        u == [t EXCEPT !.iv_prev = t.iv_cur, !.iv_cur = iv_cur,
                       !.blocks = t.blocks + 1]
    IN  IF Len(Slice(t.dest_data, 0, 8)) # Len(Slice(iv_cur, 0, 8))
        THEN TcRaise(u, "ValueError", "strxor")
        ELSE [u EXCEPT !.dest_data =
                          original_tea_decrypt(self,
                              strxor(Slice(t.dest_data, 0, 8), Slice(iv_cur, 0, 8))),
                       !.src_pos = t.src_pos + 8, !.dest_idx = 0]

\* one test of `while i <= self._salt_len` and, when it holds, its body
TcSalt(self, t) ==
    IF t.i <= self.salt_len
    THEN IF t.dest_idx < 8
         THEN [t EXCEPT !.dest_idx = t.dest_idx + 1, !.i = t.i + 1]
         ELSE IF t.dest_idx = 8 THEN crypt_block(self, t) ELSE t
    ELSE [t EXCEPT !.pc = "out", !.out_buffer_pos = 0]

\* s[idx] of Python for 0 <= idx: in range or an IndexError
InRange(s, idx) == idx < Len(s)

\* one test of `while out_buffer_pos < out_buffer_len` and its body
TcOut(self, t) ==
    IF t.out_buffer_pos < t.out_buffer_len
    THEN IF t.dest_idx < 8
         THEN IF InRange(t.dest_data, t.dest_idx) /\ InRange(t.iv_prev, t.dest_idx)
              THEN [t EXCEPT !.out_buffer[t.out_buffer_pos + 1] =
                                 Xor8(t.dest_data[t.dest_idx + 1],
                                      t.iv_prev[t.dest_idx + 1]),
                             !.dest_idx = t.dest_idx + 1,
                             !.out_buffer_pos = t.out_buffer_pos + 1]
              ELSE TcRaise(t, "IndexError", "index out of range")
         ELSE IF t.dest_idx = 8 THEN crypt_block(self, t) ELSE t
    ELSE [t EXCEPT !.pc = "zero", !.i = 1]

\* one step of `for i in range(1, self._zero_len)` and its body, which
\* compares position dest_idx each time
TcZero(self, t) ==
    IF t.i < self.zero_len
    THEN IF InRange(t.dest_data, t.dest_idx) /\ InRange(t.iv_prev, t.dest_idx)
         THEN IF t.dest_data[t.dest_idx + 1] # t.iv_prev[t.dest_idx + 1]
              THEN TcRaise(t, "DecryptionError", "zero check failed")
              ELSE [t EXCEPT !.i = t.i + 1]
         ELSE TcRaise(t, "IndexError", "index out of range")
    ELSE TcReturn(t, t.out_buffer)

\* first blocks offered: the encryption of a block whose first byte is the
\* header, so that the pad length the header holds is chosen
TcHeaders == {6, 3, 14, 255, 0}
TcFirstBlocks(self) ==
    {tea_encrypt_block(self.key, self.rounds, self.delta,
                       <<h>> \o Pattern(7, 29, h)) : h \in TcHeaders}

\* how many 8-byte blocks follow the first in a well-sized source
MaxTailBlocks == 2

TcSources(self) ==
    {b \o Pattern(8 * n, 41, 7) : b \in TcFirstBlocks(self), n \in 0..MaxTailBlocks}
    \cup {Slice(b \o Pattern(16, 41, 7), 0, n) : b \in TcFirstBlocks(self),
                                                  n \in {0, 7, 15, 17}}

TcStart ==
    /\ cipher.cls = "TC_TEACipher"
    /\ tc = NoCall
    /\ \E src \in TcSources(cipher) : tc' = TcBegin(cipher, src)
    /\ UNCHANGED <<cipher, ctor, calls, inflight>>

TcSaltStep ==
    /\ tc.pc = "salt"
    /\ tc' = TcSalt(cipher, tc)
    /\ UNCHANGED <<cipher, ctor, calls, inflight>>

TcOutStep ==
    /\ tc.pc = "out"
    /\ tc' = TcOut(cipher, tc)
    /\ UNCHANGED <<cipher, ctor, calls, inflight>>

TcZeroStep ==
    /\ tc.pc = "zero"
    /\ tc' = TcZero(cipher, tc)
    /\ UNCHANGED <<cipher, ctor, calls, inflight>>

--------------------------------------------------------------------------
(* QMCv1_StaticMapCipher and QMCv2_DynamicMapCipher *)

\* 0x7fff: offsets above it are folded modulo it
FoldAbove == 32767

static_cipher_box ==
    <<
      119,  72,  50, 115, 222, 242, 192, 200, 149, 236,  48, 178,  81, 195, 225, 160,
      158, 230, 157, 207, 250, 127,  20, 209, 206, 184, 220, 195,  74, 103, 147, 214,
       40, 194, 145, 112, 202, 141, 162, 164, 240,   8,  97, 144, 126, 111, 162, 224,
      235, 174,  62, 182, 103, 199, 146, 244, 145, 181, 246, 108,  94, 132,  64, 247,
      243,  27,   2, 127, 213, 171,  65, 137,  40, 244,  37, 204,  82,  17, 173,  67,
      104, 166,  65, 139, 132, 181, 255,  44, 146,  74,  38, 216,  71, 106, 124, 149,
       97, 204, 230, 203, 187,  63,  71,  88, 137, 117, 195, 117, 161, 217, 175, 204,
        8, 115,  23, 220, 170, 154, 162,  22,  65, 216, 162,   6, 198, 139, 252, 102,
       52, 159, 207,  24,  35, 160,  10, 116, 231,  43,  39, 112, 146, 233, 175,  55,
      230, 140, 167, 188,  98, 101, 156, 194,   8, 201, 136, 179, 243,  67, 172, 116,
       44,  15, 212, 175, 161, 195,   1, 100, 149,  78,  72, 159, 244,  53, 120, 149,
      122,  57, 214, 106, 160, 109,  64, 232,  79, 168, 239,  17,  29, 243,  27,  63,
       63,   7, 221, 111,  91,  25,  48,  25, 251, 239,  14,  55, 240,  14, 205,  22,
       73, 254,  83,  71,  19,  26, 189, 164, 241,  64,  25,  96,  14, 237, 104,   9,
        6,  95,  77, 207,  61,  26, 254,  32, 119, 228, 217, 218, 249, 164,  43, 118,
       28, 113, 219,   0, 188, 253,  12, 108, 165,  71, 247, 246,   0, 121,  74,  17
    >>

StaticMap_init == Built([cls |-> "QMCv1_StaticMapCipher"])

\* `if offset > 0x7fff: offset %= 0x7fff`
FoldOffset(offset) == IF offset > FoldAbove THEN offset % FoldAbove ELSE offset

\* QMCv1_StaticMapCipher._get_mask; & 0xff is % 256
static_get_mask(offset) ==
    LET o == FoldOffset(offset)
        idx == (o * o + 27) % 256
    IN  static_cipher_box[idx + 1]

StaticMap_decrypt(self, src_data, offset) ==
    Returns([i \in 1..Len(src_data) |->
                Xor8(src_data[i], static_get_mask(offset + i - 1))])

DynamicMap_init(key) ==
    IF key.isNone THEN Raised("TypeError")
    ELSE LET base == Cipher_init(key)
         IN  Built([cls |-> "QMCv2_DynamicMapCipher", key |-> base.key,
                    key_length |-> base.key_length])

RECURSIVE Pow2(_)
Pow2(n) == IF n = 0 THEN 1 ELSE 2 * Pow2(n - 1)

\* _rotate as a barrel rotate: the right part shifted by 8 - rotated
rotate_barrel(value, bits) ==
    LET rotated == (bits + 4) % 8
        left == (value * Pow2(rotated)) % 256
        right == (value \div Pow2(8 - rotated)) % 256
    IN  OrBits(left, right, 8)

\* QMCv2_DynamicMapCipher._rotate
rotate(value, bits) ==
    LET rotated == (bits + 4) % 8
        left == (value * Pow2(rotated)) % 256
        right == (value \div Pow2(rotated)) % 256
    IN  OrBits(left, right, 8)

\* QMCv2_DynamicMapCipher._get_mask, key_length > 0; idx & 7 is idx % 8
dynamic_get_mask(self, offset) ==
    LET o == FoldOffset(offset)
        idx == (o * o + 71214) % self.key_length
    IN  rotate(self.key[idx + 1], idx % 8)

\* the first mask taken divides by key_length
DynamicMap_decrypt(self, src_data, offset) ==
    IF Len(src_data) > 0 /\ self.key_length = 0 THEN Fails("ZeroDivisionError")
    ELSE Returns([i \in 1..Len(src_data) |->
                     Xor8(src_data[i], dynamic_get_mask(self, offset + i - 1))])

--------------------------------------------------------------------------
(* QMCv2_RC4Cipher *)

rc4_first_segment_size == 128
rc4_segment_size == 5120

\* box[a], box[b] = box[b], box[a]
Swap(box, a, b) == [box EXCEPT ![a] = box[b], ![b] = box[a]]

\* the key-scheduling loop of __init__, from index i on
RECURSIVE ksa(_, _, _, _)
ksa(box, key, i, j) ==
    IF i >= Len(key) THEN box
    ELSE LET j2 == (j + box[i] + key[(i % Len(key)) + 1]) % Len(key)
         IN  ksa(Swap(box, i, j2), key, i + 1, j2)

\* x & 0xffffffff, for the x the model's integers hold
And32(x) == (x % Half) + Half * ((x \div Half) % Half)

\* _get_hash_base, from index i on: zero bytes are skipped, and the loop
\* ends at the first product that is zero or does not grow
RECURSIVE get_hash_base(_, _, _)
get_hash_base(key, i, hash_base) ==
    IF i >= Len(key) THEN hash_base
    ELSE LET v == key[i + 1]
             next_hash == And32(hash_base * v)
         IN  IF v = 0 THEN get_hash_base(key, i + 1, hash_base)
             ELSE IF next_hash = 0 \/ next_hash <= hash_base THEN hash_base
             ELSE get_hash_base(key, i + 1, next_hash)

RC4_init(key) ==
    IF key.isNone THEN Raised("TypeError")
    ELSE LET base == Cipher_init(key)
             L == base.key_length
         IN  IF L = 0 THEN Raised("CipherGenerationError")
             ELSE Built([cls |-> "QMCv2_RC4Cipher", key |-> base.key,
                         key_length |-> L,
                         box |-> ksa([i \in 0..(L - 1) |-> i % 256], base.key, 0, 0),
                         hash |-> get_hash_base(base.key, 0, 1)])

\* the (hash, divisor) pairs of the model's keys and positions on which
\* the double-precision hash / divisor * 100 truncates to one less than
\* the exact quotient (as 0.29 * 100 is 28.999999999999996)
InexactDouble == {}

\* int(hash / divisor * 100) on doubles, divisor > 0
DoubleTimes100(hash, divisor) ==
    ((100 * hash) \div divisor)
        - (IF <<hash, divisor>> \in InexactDouble THEN 1 ELSE 0)

\* seed of _get_segment_skip: a zero seed makes the division raise
segment_seed(self, v) == self.key[(v % self.key_length) + 1]

\* _get_segment_skip, seed > 0
get_segment_skip(self, v) ==
    DoubleTimes100(self.hash, (v + 1) * segment_seed(self, v)) % self.key_length

\* _enc_1st_segment
enc_1st_segment(self, buf, offset) ==
    IF \E i \in 1..Len(buf) : segment_seed(self, offset + i - 1) = 0
    THEN Fails("ZeroDivisionError")
    ELSE Returns([i \in 1..Len(buf) |->
                     Xor8(buf[i],
                          self.key[get_segment_skip(self, offset + i - 1) + 1])])

\* one iteration of the loop of _enc_another_segment on the locals
\* box, j, k; out is box[(box[j] + box[k]) % key_length] after the swap,
\* steps the iterations taken so far
walk_iteration(w, L) ==
    LET j == (w.j + 1) % L
        k == (w.box[j] + w.k) % L
        box == Swap(w.box, j, k)
    IN  [box |-> box, j |-> j, k |-> k, out |-> box[(box[j] + box[k]) % L],
         steps |-> w.steps + 1]

\* n iterations with i < 0: nothing is emitted.  The iterations are taken
\* in two halves, each worked out (m = m) before the next
RECURSIVE walk_skip(_, _, _)
walk_skip(w, L, n) ==
    IF n <= 0 THEN w
    ELSE IF n = 1 THEN walk_iteration(w, L)
    ELSE LET h == n \div 2
             m == walk_skip(w, L, h)
         IN  IF m = m THEN walk_skip(m, L, n - h) ELSE w

\* the iterations with i >= 0: buf[i] ^= out
RECURSIVE walk_emit(_, _, _)
walk_emit(w, L, buf) ==
    IF Len(buf) = 0 THEN [w |-> w, buf |-> <<>>]
    ELSE IF Len(buf) = 1
    THEN LET m == walk_iteration(w, L)
         IN  [w |-> m, buf |-> <<Xor8(buf[1], m.out)>>]
    ELSE LET h == Len(buf) \div 2
             a == walk_emit(w, L, SubSeq(buf, 1, h))
         IN  IF a = a
             THEN LET b == walk_emit(a.w, L, SubSeq(buf, h + 1, Len(buf)))
                  IN  [w |-> b.w, buf |-> a.buf \o b.buf]
             ELSE a

\* skip_len of _enc_another_segment, the seed of the segment being > 0
skip_len_of(self, offset) ==
    (offset % rc4_segment_size)
        + get_segment_skip(self, offset \div rc4_segment_size)

\* _enc_another_segment: the walk runs on self.box.copy(); steps is the
\* number of iterations its loop has taken
enc_another_segment(self, buf, offset) ==
    IF segment_seed(self, offset \div rc4_segment_size) = 0
    THEN [exc |-> "ZeroDivisionError", out |-> <<>>, steps |-> 0]
    ELSE LET w0 == [box |-> self.box, j |-> 0, k |-> 0, out |-> 0, steps |-> 0]
             w1 == walk_skip(w0, self.key_length, skip_len_of(self, offset))
             e == walk_emit(w1, self.key_length, buf)
         IN  [exc |-> "none", out |-> e.buf, steps |-> e.w.steps]

\* src[done : done + Len(chunk)] = chunk
Splice(src, done, chunk) ==
    [i \in 1..Len(src) |->
        IF i > done /\ i <= done + Len(chunk) THEN chunk[i - done] ELSE src[i]]

\* the locals of decrypt; segs lists the segment calls made, each with
\* the offset and length of its chunk and the walk steps it took
RC4Locals(src_data, offset) ==
    [src |-> src_data, offset |-> offset, pending |-> Len(src_data), done |-> 0,
     exc |-> "none", returned |-> FALSE, segs |-> <<>>]

\* one segment call on src[done : done + blksize], then mark_process;
\* with ret_if_0 the call site returns when nothing is pending
RC4Segment(self, d, fn, blksize, ret_if_0) ==
    LET chunk == Slice(d.src, d.done, d.done + blksize)
        r == IF fn = "1st" THEN enc_1st_segment(self, chunk, d.offset)
             ELSE enc_another_segment(self, chunk, d.offset)
        log == Append(d.segs, [fn |-> fn, offset |-> d.offset, len |-> Len(chunk),
                               raised |-> r.exc # "none",
                               steps |-> IF fn = "1st" THEN 0 ELSE r.steps])
    IN  IF r.exc # "none" THEN [d EXCEPT !.exc = r.exc, !.segs = log]
        ELSE [d EXCEPT !.src = Splice(d.src, d.done, r.out),
                       !.offset = d.offset + blksize,
                       !.pending = d.pending - blksize,
                       !.done = d.done + blksize,
                       !.returned = ret_if_0 /\ d.pending - blksize = 0,
                       !.segs = log]

Min(a, b) == IF a < b THEN a ELSE b

Over(d) == d.exc # "none" \/ d.returned

\* `if offset < self.__rc4_first_segment_size`
RC4First(self, d) ==
    IF Over(d) \/ ~(d.offset < rc4_first_segment_size) THEN d
    ELSE RC4Segment(self, d, "1st",
                    Min(d.pending, rc4_first_segment_size - d.offset), TRUE)

\* `if offset % self.__rc4_segment_size != 0`
RC4Rest(self, d) ==
    IF Over(d) \/ d.offset % rc4_segment_size = 0 THEN d
    ELSE RC4Segment(self, d, "another",
                    Min(d.pending, rc4_segment_size - (d.offset % rc4_segment_size)),
                    TRUE)

\* `while pending > self.__rc4_segment_size`
RECURSIVE RC4Whole(_, _)
RC4Whole(self, d) ==
    IF Over(d) \/ ~(d.pending > rc4_segment_size) THEN d
    ELSE LET e == RC4Segment(self, d, "another", rc4_segment_size, FALSE)
         IN  IF e = e THEN RC4Whole(self, e) ELSE d

\* `if pending > 0`, then `return bytes(src)`
RC4Last(self, d) ==
    IF Over(d) THEN d
    ELSE IF d.pending > 0
    THEN LET e == RC4Segment(self, d, "another", d.pending, FALSE)
         IN  IF e.exc # "none" THEN e
             ELSE [e EXCEPT !.returned = TRUE, !.offset = d.offset,
                            !.pending = d.pending, !.done = d.done]
    ELSE [d EXCEPT !.returned = TRUE]

\* QMCv2_RC4Cipher.decrypt with its locals at the end
RC4Run(self, src_data, offset) ==
    RC4Last(self, RC4Whole(self, RC4Rest(self,
        RC4First(self, RC4Locals(src_data, offset)))))

RC4_decrypt(self, src_data, offset) ==
    LET d == RC4Run(self, src_data, offset)
    IN  IF d.exc # "none" THEN Fails(d.exc) ELSE Returns(d.src)

--------------------------------------------------------------------------
(* Calls on the stream ciphers *)

\* the longest key, the longest short source, the calls of one run
MaxKeyLen == 3
MaxBufLen == 3
MaxCalls == 3

\* keys offered to the key-taking stream ciphers: None, and for each
\* length the bytes 0,0,..; 3,3,..; 2,3,4,..; 0,2,4,..
StreamKeyArgs ==
    {NoneKey} \cup {BytesKey(Pattern(n, p[1], p[2])) :
                       n \in 0..MaxKeyLen,
                       p \in {<<0, 0>>, <<0, 3>>, <<1, 1>>, <<2, 254>>}}

StreamBufs ==
    {Pattern(n, p[1], p[2]) : n \in 0..MaxBufLen, p \in {<<0, 0>>, <<85, 170>>}}

\* offsets around the fold at 0x7fff for the mask ciphers, around the
\* first segment's end and the segment boundaries for the RC4 cipher
MaskOffsets == {0, 1, 255, 32766, 32767, 32768, 40000}
RC4Offsets == {0, 126, 127, 128, 5119, 5120, 5121, 10239}

\* a source longer than a segment, decrypted from a segment's start
LongBuf == Pattern(rc4_segment_size + 1, 1, 0)

StreamArgs(cls) ==
    IF cls = "QMCv2_RC4Cipher"
    THEN (StreamBufs \X RC4Offsets) \cup {<<LongBuf, rc4_segment_size>>}
    ELSE StreamBufs \X MaskOffsets

ConstructStaticMap ==
    Construct("QMCv1_StaticMapCipher", [key |-> NoneKey], StaticMap_init)

\* the mask cipher is given None and the keys of length 1 and more (its
\* class is the one chosen for key sizes in (0, 300])
ConstructDynamicMap ==
    \E key \in {a \in StreamKeyArgs : a.isNone \/ Len(a.bytes) > 0} :
        Construct("QMCv2_DynamicMapCipher", [key |-> key], DynamicMap_init(key))

ConstructRC4 ==
    \E key \in StreamKeyArgs :
        Construct("QMCv2_RC4Cipher", [key |-> key], RC4_init(key))

StreamClasses ==
    {"QMCv1_StaticMapCipher", "QMCv2_DynamicMapCipher", "QMCv2_RC4Cipher"}

decrypt(self, src_data, offset) ==
    IF self.cls = "QMCv1_StaticMapCipher"
    THEN StaticMap_decrypt(self, src_data, offset)
    ELSE IF self.cls = "QMCv2_DynamicMapCipher"
    THEN DynamicMap_decrypt(self, src_data, offset)
    ELSE RC4_decrypt(self, src_data, offset)

\* what a caller passes after the first call: the last output at the
\* same offset, a leading part of the first source at its offset, or,
\* after a leading part, the rest at the offset the part ends at
LaterArgs ==
    LET first == calls[1]
        last == calls[Len(calls)]
        n == Len(first.src)
    IN  (IF last.exc = "none" THEN {<<last.out, last.offset>>} ELSE {})
        \cup (IF Len(calls) = 1 /\ n <= MaxBufLen
              THEN {<<SubSeq(first.src, 1, m), first.offset>> : m \in 0..n}
              ELSE {})
        \cup (IF Len(calls) = 2 /\ n <= MaxBufLen /\ last.offset = first.offset
                 /\ Len(last.src) <= n /\ last.src = SubSeq(first.src, 1, Len(last.src))
              THEN {<<SubSeq(first.src, Len(last.src) + 1, n),
                      first.offset + Len(last.src)>>}
              ELSE {})

StreamDecrypt ==
    /\ cipher.cls \in StreamClasses
    /\ Len(calls) < MaxCalls
    /\ \E a \in (IF calls = <<>> THEN StreamArgs(cipher.cls) ELSE LaterArgs) :
          Called("decrypt", a[1], a[2], decrypt(cipher, a[1], a[2]))
    /\ UNCHANGED cipher

--------------------------------------------------------------------------
(* QMCv2_RC4Cipher.decrypt, several calls in progress on one instance,   *)
(* each advancing one statement group or one walk iteration at a time    *)

\* the locals of a call that has just been entered
ConcLocals(src_data, offset) ==
    [pc |-> "first", src0 |-> src_data, offset0 |-> offset,
     src |-> src_data, offset |-> offset, pending |-> Len(src_data), done |-> 0,
     site |-> "", blksize |-> 0, buf |-> <<>>, box |-> <<>>, j |-> 0, k |-> 0,
     i |-> 0, exc |-> "none"]

\* mark_process(p), and where the call site goes from there
ConcMark(c, site, buf, p) ==
    LET d == [c EXCEPT !.src = Splice(c.src, c.done, buf),
                       !.offset = c.offset + p, !.pending = c.pending - p,
                       !.done = c.done + p]
    IN  IF site = "last"
        THEN [c EXCEPT !.src = Splice(c.src, c.done, buf), !.pc = "returned"]
        ELSE IF site = "whole" THEN [d EXCEPT !.pc = "whole"]
        ELSE IF d.pending = 0 THEN [d EXCEPT !.pc = "returned"]
        ELSE [d EXCEPT !.pc = IF site = "first" THEN "rest" ELSE "whole"]

\* entering _enc_another_segment from a call site: buf, the copy of the
\* instance's box, j, k, and the first i of range(-skip_len, len(buf))
ConcEnter(c, self, site, blksize) ==
    IF segment_seed(self, c.offset \div rc4_segment_size) = 0
    THEN [c EXCEPT !.pc = "raised", !.exc = "ZeroDivisionError"]
    ELSE [c EXCEPT !.pc = "walk", !.site = site, !.blksize = blksize,
                   !.buf = Slice(c.src, c.done, c.done + blksize),
                   !.box = self.box, !.j = 0, !.k = 0,
                   !.i = 0 - skip_len_of(self, c.offset)]

\* the statements of decrypt between two walks
ConcControl(c, self) ==
    IF c.pc = "first"
    THEN IF c.offset < rc4_first_segment_size
         THEN LET blksize == Min(c.pending, rc4_first_segment_size - c.offset)
                  r == enc_1st_segment(self, Slice(c.src, 0, blksize), c.offset)
              IN  IF r.exc # "none" THEN [c EXCEPT !.pc = "raised", !.exc = r.exc]
                  ELSE ConcMark(c, "first", r.out, blksize)
         ELSE [c EXCEPT !.pc = "rest"]
    ELSE IF c.pc = "rest"
    THEN IF c.offset % rc4_segment_size # 0
         THEN ConcEnter(c, self, "rest",
                        Min(c.pending,
                            rc4_segment_size - (c.offset % rc4_segment_size)))
         ELSE [c EXCEPT !.pc = "whole"]
    ELSE IF c.pc = "whole"
    THEN IF c.pending > rc4_segment_size
         THEN ConcEnter(c, self, "whole", rc4_segment_size)
         ELSE [c EXCEPT !.pc = "last"]
    ELSE IF c.pc = "last"
    THEN IF c.pending > 0 THEN ConcEnter(c, self, "last", c.pending)
         ELSE [c EXCEPT !.pc = "returned"]
    ELSE \* pc = "walk" with the range exhausted: `return buf`
         ConcMark(c, c.site, c.buf, c.blksize)

\* one iteration of the walk with box bound to the instance's box itself
\* (no copy): the swap lands in the instance
walk_step_shared(c, self) ==
    LET w == walk_iteration([box |-> self.box, j |-> c.j, k |-> c.k,
                             out |-> 0, steps |-> 0],
                            self.key_length)
    IN  [c |-> [c EXCEPT !.box = w.box, !.j = w.j, !.k = w.k, !.i = c.i + 1,
                         !.buf = IF c.i >= 0
                                 THEN [c.buf EXCEPT ![c.i + 1] =
                                          Xor8(c.buf[c.i + 1], w.out)]
                                 ELSE c.buf],
         self |-> [self EXCEPT !.box = w.box]]

\* one iteration of the walk of a call, on the call's own box; the
\* instance is left as it is
walk_step(c, self) ==
    LET w == walk_iteration([box |-> c.box, j |-> c.j, k |-> c.k,
                             out |-> 0, steps |-> 0],
                            self.key_length)
    IN  [c |-> [c EXCEPT !.box = w.box, !.j = w.j, !.k = w.k, !.i = c.i + 1,
                         !.buf = IF c.i >= 0
                                 THEN [c.buf EXCEPT ![c.i + 1] =
                                          Xor8(c.buf[c.i + 1], w.out)]
                                 ELSE c.buf],
         self |-> self]

Walking(c) == c.pc = "walk" /\ c.i < Len(c.buf)

Running(c) == c.pc \notin {"returned", "raised"}

\* the callers that share the instance
Callers == {1, 2}

ConcBufs == {<<>>, Pattern(1, 0, 0), Pattern(MaxBufLen - 1, 85, 170)}
ConcOffsets == {0, rc4_first_segment_size - 1, rc4_segment_size,
                rc4_segment_size + 1, 2 * rc4_segment_size}

ConcCall ==
    /\ cipher.cls = "QMCv2_RC4Cipher"
    /\ Len(inflight) < Cardinality(Callers)
    /\ \E src \in ConcBufs, offset \in ConcOffsets :
          inflight' = Append(inflight, ConcLocals(src, offset))
    /\ UNCHANGED <<cipher, ctor, calls, tc>>

ConcWalk ==
    \E id \in 1..Len(inflight) :
        /\ Walking(inflight[id])
        /\ LET r == walk_step(inflight[id], cipher)
           IN  /\ inflight' = [inflight EXCEPT ![id] = r.c]
               /\ cipher' = r.self
        /\ UNCHANGED <<ctor, calls, tc>>

ConcAdvance ==
    \E id \in 1..Len(inflight) :
        /\ Running(inflight[id])
        /\ ~Walking(inflight[id])
        /\ inflight' = [inflight EXCEPT ![id] = ConcControl(inflight[id], cipher)]
        /\ UNCHANGED <<cipher, ctor, calls, tc>>

--------------------------------------------------------------------------
(* The generator-style classes *)

\* StreamCipher.__init__: the key and its length are kept
StreamCipher_init(key) == [key |-> key.bytes, key_length |-> Len(key.bytes)]

\* xor_bytestrings: the XOR of the bytes paired by zip
xor_bytestrings(a, b) ==
    [i \in 1..Min(Len(a), Len(b)) |-> Xor8(a[i], b[i])]

\* QMCv1_ImprovedStaticMapCipher._static_cipher_box
improved_static_cipher_box ==
    <<119, 72, 50, 115, 222, 242, 192, 200, 149, 236, 48, 178, 81, 195, 225, 160,
      158, 230, 157, 207, 250, 127, 20, 209, 206, 184, 220, 195, 74, 103, 147, 214,
      40, 194, 145, 112, 202, 141, 162, 164, 240, 8, 97, 144, 126, 111, 162, 224,
      235, 174, 62, 182, 103, 199, 146, 244, 145, 181, 246, 108, 94, 132, 64, 247,
      243, 27, 2, 127, 213, 171, 65, 137, 40, 244, 37, 204, 82, 17, 173, 67,
      104, 166, 65, 139, 132, 181, 255, 44, 146, 74, 38, 216, 71, 106, 124, 149,
      97, 204, 230, 203, 187, 63, 71, 88, 137, 117, 195, 117, 161, 217, 175, 204,
      8, 115, 23, 220, 170, 154, 162, 22, 65, 216, 162, 6, 198, 139, 252, 102,
      52, 159, 207, 24, 35, 160, 10, 116, 231, 43, 39, 112, 146, 233, 175, 55,
      230, 140, 167, 188, 98, 101, 156, 194, 8, 201, 136, 179, 243, 67, 172, 116,
      44, 15, 212, 175, 161, 195, 1, 100, 149, 78, 72, 159, 244, 53, 120, 149,
      122, 57, 214, 106, 160, 109, 64, 232, 79, 168, 239, 17, 29, 243, 27, 63,
      63, 7, 221, 111, 91, 25, 48, 25, 251, 239, 14, 55, 240, 14, 205, 22,
      73, 254, 83, 71, 19, 26, 189, 164, 241, 64, 25, 96, 14, 237, 104, 9,
      6, 95, 77, 207, 61, 26, 254, 32, 119, 228, 217, 218, 249, 164, 43, 118,
      28, 113, 219, 0, 188, 253, 12, 108, 165, 71, 247, 246, 0, 121, 74, 17>>

\* QMCv1_ImprovedStaticMapCipher.__init__: key may be None
ImprovedStaticMap_init(key) == Built([cls |-> "QMCv1_ImprovedStaticMapCipher"])

\* QMCv1_ImprovedStaticMapCipher._yield_mask, as the bytes it yields
static_yield_mask(buffer_len, offset) ==
    [n \in 1..buffer_len |->
        LET i == FoldOffset(offset + n - 1)
        IN  improved_static_cipher_box[((i * i + 27) % 256) + 1]]

ImprovedStaticMap_decrypt(self, src, offset) ==
    Returns(xor_bytestrings(static_yield_mask(Len(src), offset), src))

ImprovedDynamicMap_init(key) ==
    IF key.isNone THEN Raised("TypeError")
    ELSE LET base == StreamCipher_init(key)
         IN  Built([cls |-> "QMCv2_ImprovedDynamicMapCipher", key |-> base.key,
                    key_length |-> base.key_length])

\* QMCv2_ImprovedDynamicMapCipher._yield_mask, key_len > 0
dynamic_yield_mask(self, buffer_len, offset) ==
    [n \in 1..buffer_len |->
        LET i == FoldOffset(offset + n - 1)
            idx == (i * i + 71214) % self.key_length
            rotete_value == self.key[idx + 1]
            rotated == ((idx % 8) + 4) % 8
        IN  OrBits((rotete_value * Pow2(rotated)) % 256,
                   (rotete_value \div Pow2(rotated)) % 256, 8)]

\* the first byte yielded takes % key_len
ImprovedDynamicMap_decrypt(self, src, offset) ==
    IF Len(src) > 0 /\ self.key_length = 0 THEN Fails("ZeroDivisionError")
    ELSE Returns(xor_bytestrings(dynamic_yield_mask(self, Len(src), offset), src))

\* QMCv2_ImprovedRC4Cipher.__init__: the key's length is not looked at
ImprovedRC4_init(key) ==
    IF key.isNone THEN Raised("TypeError")
    ELSE LET base == StreamCipher_init(key)
             L == base.key_length
         IN  Built([cls |-> "QMCv2_ImprovedRC4Cipher", key |-> base.key,
                    key_length |-> L,
                    box |-> ksa([i \in 0..(L - 1) |-> i % 256], base.key, 0, 0),
                    hash |-> get_hash_base(base.key, 0, 1)])

\* QMCv2_ImprovedRC4Cipher._get_segment_skip raises on v % key_len with an
\* empty key and on the division with a zero seed
skip_raises(self, v) ==
    self.key_length = 0 \/ segment_seed(self, v) = 0

\* _yield_1st_segment, as the bytes it yields
yield_1st_segment(self, buffer, offset) ==
    IF \E i \in 1..Len(buffer) : skip_raises(self, offset + i - 1)
    THEN Fails("ZeroDivisionError")
    ELSE Returns(xor_bytestrings(
             [i \in 1..Len(buffer) |->
                 self.key[get_segment_skip(self, offset + i - 1) + 1]],
             buffer))

\* _yield_another_segment: yield_stream_bytes walks a copy of the box and
\* yields the stream byte of each i >= 0
yield_another_segment(self, buffer, offset) ==
    IF skip_raises(self, offset \div rc4_segment_size)
    THEN Fails("ZeroDivisionError")
    ELSE LET w0 == [box |-> self.box, j |-> 0, k |-> 0, out |-> 0, steps |-> 0]
             w1 == walk_skip(w0, self.key_length, skip_len_of(self, offset))
             zeros == [i \in 1..Len(buffer) |-> 0]
             stream == walk_emit(w1, self.key_length, zeros).buf
         IN  Returns(xor_bytestrings(stream, buffer))

\* one segment call of QMCv2_ImprovedRC4Cipher.decrypt, then mark_process
ImprovedRC4Segment(self, d, fn, blksize, ret_if_0) ==
    LET chunk == Slice(d.src, d.done, d.done + blksize)
        r == IF fn = "1st" THEN yield_1st_segment(self, chunk, d.offset)
             ELSE yield_another_segment(self, chunk, d.offset)
        log == Append(d.segs, [fn |-> fn, offset |-> d.offset, len |-> Len(chunk)])
    IN  IF r.exc # "none" THEN [d EXCEPT !.exc = r.exc, !.segs = log]
        ELSE [d EXCEPT !.src = Splice(d.src, d.done, r.out),
                       !.offset = d.offset + blksize,
                       !.pending = d.pending - blksize,
                       !.done = d.done + blksize,
                       !.returned = ret_if_0 /\ d.pending - blksize = 0,
                       !.segs = log]

\* `if offset < first_segment_size`
ImprovedRC4First(self, d) ==
    IF Over(d) \/ ~(d.offset < rc4_first_segment_size) THEN d
    ELSE ImprovedRC4Segment(self, d, "1st",
                            Min(d.pending, rc4_first_segment_size - d.offset), TRUE)

\* `if offset % another_segment_size != 0`
ImprovedRC4Rest(self, d) ==
    IF Over(d) \/ d.offset % rc4_segment_size = 0 THEN d
    ELSE ImprovedRC4Segment(self, d, "another",
                            Min(d.pending,
                                rc4_segment_size - (d.offset % rc4_segment_size)),
                            TRUE)

\* `while pending > another_segment_size`
RECURSIVE ImprovedRC4Whole(_, _)
ImprovedRC4Whole(self, d) ==
    IF Over(d) \/ ~(d.pending > rc4_segment_size) THEN d
    ELSE LET e == ImprovedRC4Segment(self, d, "another", rc4_segment_size, FALSE)
         IN  IF e = e THEN ImprovedRC4Whole(self, e) ELSE d

\* `if pending > 0`, then `return bytes(src_data)`
ImprovedRC4Last(self, d) ==
    IF Over(d) THEN d
    ELSE IF d.pending > 0
    THEN ImprovedRC4Segment(self, d, "another", d.pending, FALSE)
    ELSE d

ImprovedRC4_decrypt(self, src, offset) ==
    LET d == ImprovedRC4Last(self, ImprovedRC4Whole(self, ImprovedRC4Rest(self,
                 ImprovedRC4First(self, RC4Locals(src, offset)))))
    IN  IF d.exc # "none" THEN Fails(d.exc) ELSE Returns(d.src)

ImprovedClasses ==
    {"QMCv1_ImprovedStaticMapCipher", "QMCv2_ImprovedDynamicMapCipher",
     "QMCv2_ImprovedRC4Cipher"}

improved_decrypt(self, src, offset) ==
    IF self.cls = "QMCv1_ImprovedStaticMapCipher"
    THEN ImprovedStaticMap_decrypt(self, src, offset)
    ELSE IF self.cls = "QMCv2_ImprovedDynamicMapCipher"
    THEN ImprovedDynamicMap_decrypt(self, src, offset)
    ELSE ImprovedRC4_decrypt(self, src, offset)

ConstructImprovedStaticMap ==
    \E key \in {NoneKey, BytesKey(<<3>>)} :
        Construct("QMCv1_ImprovedStaticMapCipher", [key |-> key],
                  ImprovedStaticMap_init(key))

ConstructImprovedDynamicMap ==
    \E key \in StreamKeyArgs :
        Construct("QMCv2_ImprovedDynamicMapCipher", [key |-> key],
                  ImprovedDynamicMap_init(key))

ConstructImprovedRC4 ==
    \E key \in StreamKeyArgs :
        Construct("QMCv2_ImprovedRC4Cipher", [key |-> key], ImprovedRC4_init(key))

\* the buffers and offsets offered to the class's counterpart
ImprovedArgs(cls) ==
    StreamArgs(IF cls = "QMCv2_ImprovedRC4Cipher" THEN "QMCv2_RC4Cipher" ELSE cls)

ImprovedDecrypt ==
    /\ cipher.cls \in ImprovedClasses
    /\ calls = <<>>
    /\ \E a \in ImprovedArgs(cipher.cls) :
          Called("decrypt", a[1], a[2], improved_decrypt(cipher, a[1], a[2]))
    /\ UNCHANGED cipher

--------------------------------------------------------------------------
(* The mask computation of QMCv2_DynamicMapCipher on its own *)

\* _rotate applied to a byte and a bit count
Rotate ==
    /\ cipher.cls = "QMCv2_DynamicMapCipher"
    /\ calls = <<>>
    /\ \E value \in 0..255, bits \in 0..7 :
          calls' = <<[op |-> "_rotate", value |-> value, bits |-> bits,
                      out |-> rotate(value, bits)]>>
    /\ UNCHANGED <<cipher, ctor, tc, inflight>>

\* _get_mask at an offset
GetMask ==
    /\ cipher.cls = "QMCv2_DynamicMapCipher"
    /\ calls = <<>>
    /\ \E offset \in MaskOffsets :
          calls' = <<[op |-> "_get_mask", offset |-> offset,
                      out |-> dynamic_get_mask(cipher, offset)]>>
    /\ UNCHANGED <<cipher, ctor, tc, inflight>>

Init ==
    /\ cipher = NoCipher
    /\ ctor = NoCtor
    /\ calls = <<>>
    /\ tc = NoCall
    /\ inflight = <<>>

NextTea == ConstructQMC_TEA \/ TeaDecrypt \/ TeaEncrypt

SpecTea == Init /\ [][NextTea]_vars

NextTc == ConstructTC_TEA \/ TcStart \/ TcSaltStep \/ TcOutStep \/ TcZeroStep

SpecTc == Init /\ [][NextTc]_vars

NextStream ==
    ConstructStaticMap \/ ConstructDynamicMap \/ ConstructRC4 \/ StreamDecrypt

SpecStream == Init /\ [][NextStream]_vars

NextConc == ConstructRC4 \/ ConcCall \/ ConcWalk \/ ConcAdvance

SpecConc == Init /\ [][NextConc]_vars

NextMask == ConstructDynamicMap \/ Rotate \/ GetMask

SpecMask == Init /\ [][NextMask]_vars

NextImproved ==
    \/ ConstructImprovedStaticMap
    \/ ConstructImprovedDynamicMap
    \/ ConstructImprovedRC4
    \/ ImprovedDecrypt

SpecImproved == Init /\ [][NextImproved]_vars

Next == NextTea \/ NextTc \/ NextStream

Spec == Init /\ [][Next]_vars

--------------------------------------------------------------------------
(* Properties *)

StreamCall(n) == cipher.cls \in StreamClasses /\ calls[n].op = "decrypt"

\* the byte the RC4 cipher's key and the absolute position p determine:
\* a keyed lookup below 128, and from there the byte the walk of a fresh
\* copy of the box emits at its step (p mod 5120) + skip(p div 5120) + 1
rc4_keystream(self, p) ==
    IF p < rc4_first_segment_size
    THEN self.key[get_segment_skip(self, p) + 1]
    ELSE walk_skip([box |-> self.box, j |-> 0, k |-> 0, out |-> 0, steps |-> 0],
                   self.key_length, skip_len_of(self, p) + 1).out

keystream(self, p) ==
    IF self.cls = "QMCv1_StaticMapCipher" THEN static_get_mask(p)
    ELSE IF self.cls = "QMCv2_DynamicMapCipher" THEN dynamic_get_mask(self, p)
    ELSE rc4_keystream(self, p)

\* the positions of a source compared byte by byte: all of a short one,
\* both ends of a long one
Compared(src) ==
    {i \in 1..Len(src) : i <= MaxBufLen \/ i > Len(src) - MaxBufLen}

XorsKeystream(c) ==
    /\ Len(c.out) = Len(c.src)
    /\ \A i \in Compared(c.src) :
          c.out[i] = Xor8(c.src[i], keystream(cipher, c.offset + i - 1))

\* calls a, b, c where b and c decrypt the two parts of a's source, each
\* at its own absolute offset
Partition(a, b, c) ==
    /\ calls[b].offset = calls[a].offset
    /\ calls[c].offset = calls[a].offset + Len(calls[b].src)
    /\ calls[b].src \o calls[c].src = calls[a].src

\* C1: every decrypt call of a mask or RC4 cipher returns its source XOR
\* the keystream of the key and the absolute positions, and a source
\* decrypted in one call equals its two parts decrypted at their own
\* offsets and concatenated.
C1_PositionPurity ==
    /\ \A n \in 1..Len(calls) :
          StreamCall(n) => calls[n].exc = "none" /\ XorsKeystream(calls[n])
    /\ \A a, b, c \in 1..Len(calls) :
          StreamCall(a) /\ Partition(a, b, c)
              => calls[b].out \o calls[c].out = calls[a].out

\* The same for the calls that return.
PositionPurityOnReturn ==
    /\ \A n \in 1..Len(calls) :
          StreamCall(n) /\ calls[n].exc = "none" => XorsKeystream(calls[n])
    /\ \A a, b, c \in 1..Len(calls) :
          /\ StreamCall(a) /\ Partition(a, b, c)
          /\ \A n \in {a, b, c} : calls[n].exc = "none"
          => calls[b].out \o calls[c].out = calls[a].out

PartitionAcrossSegments ==
    \E a, b, c \in 1..Len(calls) :
        /\ cipher.cls = "QMCv2_RC4Cipher" /\ Partition(a, b, c)
        /\ calls[a].exc = "none" /\ calls[a].offset = rc4_segment_size - 1
        /\ Len(calls[b].src) = 1 /\ Len(calls[c].src) = 2

\* the two most recently consumed 8-byte blocks of the source
LastBlocks(t) ==
    /\ t.iv_cur = Slice(t.src, t.src_pos - 8, t.src_pos)
    /\ t.iv_prev = Slice(t.src, t.src_pos - 16, t.src_pos - 8)
    /\ Len(t.iv_cur) = 8
    /\ Len(t.iv_prev) = 8

\* the next step reads iv_prev[dest_idx]
ReadsIv(t) ==
    \/ t.pc = "out" /\ t.out_buffer_pos < t.out_buffer_len /\ t.dest_idx < 8
    \/ t.pc = "zero" /\ t.i < 7

\* C2: a source that passes the size and pad length checks has its
\* output loop produce Len(src) - 16 bytes, and wherever iv_prev is read,
\* iv_prev and iv_cur are the two last consumed source blocks, 8 bytes each.
C2_OutputLoop ==
    /\ ReadsIv(tc) => LastBlocks(tc)
    /\ tc.pc = "done" /\ tc.allocated => tc.out_buffer_pos = Len(tc.src) - 16
    /\ tc.pc = "zero" => tc.out_buffer_pos = Len(tc.src) - 16

\* C3: a decrypt call on a constructed mask or RC4 cipher raises nothing.
C3_NoFailurePath ==
    \A n \in 1..Len(calls) : StreamCall(n) => calls[n].exc = "none"

\* the 7 bytes from dest_idx on equal those of iv_prev
AllZeroMatch(t) ==
    /\ Len(t.iv_prev) = 8
    /\ \A j \in 0..6 :
          /\ t.dest_idx + j < 8
          /\ t.dest_data[t.dest_idx + j + 1] = t.iv_prev[t.dest_idx + j + 1]

\* C4: a call that reaches the zero check returns the output buffer when
\* all 7 trailing bytes match iv_prev, and otherwise raises the zero
\* check DecryptionError and returns nothing.
C4_ZeroCheck ==
    tc.pc = "done" /\ tc.at = "zero"
        => \/ tc.returned /\ tc.ret = tc.out_buffer /\ AllZeroMatch(tc)
           \/ /\ ~tc.returned /\ ~AllZeroMatch(tc)
              /\ tc.exc = "DecryptionError" /\ tc.msg = "zero check failed"

\* the instance the constructor built from the key it was given
Pristine == RC4_init(ctor.args.key).self

\* what a call in progress has come to: nothing yet, bytes, an exception
Outcome(c) ==
    IF c.pc = "returned" THEN Returns(c.src) ELSE Fails(c.exc)

\* C5: whatever the interleaving of the calls in progress on one
\* instance, a call that ends has the outcome of the same call (key,
\* source, offset) made alone on the instance as constructed.
C5_CallsIndependent ==
    \A id \in 1..Len(inflight) :
        ~Running(inflight[id])
            => Outcome(inflight[id])
                   = RC4_decrypt(Pristine, inflight[id].src0, inflight[id].offset0)

\* a call that walked has returned while an earlier call, entered before
\* it, is still in the middle of its own walk
C5_Interleaved ==
    /\ Len(inflight) = 2
    /\ inflight[1].pc = "walk" /\ inflight[1].j > 0
    /\ inflight[2].pc = "returned" /\ inflight[2].j > 0
    /\ inflight[2].src # inflight[2].src0

\* C6: a successful decrypt (encrypt) of an 8-byte block followed by
\* encrypt (decrypt) of its output returns the block.
C6_RoundTrip ==
    \A n \in 1..(Len(calls) - 1) :
        /\ cipher.cls = "QMC_TEACipher"
        /\ Len(calls[n].src) = 8
        /\ calls[n + 1].src = calls[n].out
        /\ calls[n + 1].op # calls[n].op
        => /\ calls[n].exc = "none" /\ calls[n + 1].exc = "none"
           /\ calls[n + 1].out = calls[n].src

C6_RoundTripped ==
    /\ Len(calls) = 2 /\ cipher.cls = "QMC_TEACipher" /\ cipher.rounds = 64
    /\ calls[1].op = "decrypt" /\ calls[2].op = "encrypt"
    /\ Len(calls[1].src) = 8 /\ calls[1].out # calls[1].src
    /\ calls[2].src = calls[1].out /\ calls[2].out = calls[1].src

BadSize(src) == Len(src) % 8 # 0 \/ Len(src) < 16

\* the pad length in the first block, plainly TEA-decrypted
HeaderPad(src) == original_tea_decrypt(cipher, src)[1] % 8

\* C7: a source whose length is no multiple of 8 or below 16 ends in a
\* size DecryptionError, one of a good size whose header's low 3 bits
\* are not 6 in the pad length DecryptionError; neither has an output
\* buffer allocated or anything returned, and no loop is entered.
C7_RejectsMalformed ==
    /\ tc.pc = "done" /\ BadSize(tc.src)
          => /\ tc.exc = "DecryptionError"
             /\ tc.msg \in {"not a multiple of the block size", "too small"}
             /\ tc.at = "start" /\ ~tc.allocated /\ ~tc.returned
    /\ tc.pc = "done" /\ ~BadSize(tc.src) /\ HeaderPad(tc.src) # 6
          => /\ tc.exc = "DecryptionError" /\ tc.msg = "invalid pad len"
             /\ tc.at = "start" /\ ~tc.allocated /\ ~tc.returned
    /\ tc.pc \in {"salt", "out", "zero"}
          => ~BadSize(tc.src) /\ HeaderPad(tc.src) = 6

C7_PadRejected ==
    /\ tc.pc = "done" /\ Len(tc.src) = 16 /\ HeaderPad(tc.src) = 3
    /\ tc.msg = "invalid pad len"

\* C8: the instance's box, hash and key stay those the constructor
\* computed from the key, whatever the calls made on it.
C8_BoxUnchanged ==
    cipher.cls = "QMCv2_RC4Cipher" => cipher = Pristine

\* a call has returned whose own box the walk has permuted away from the
\* instance's
C8_Walked ==
    \E id \in 1..Len(inflight) :
        /\ inflight[id].pc = "returned" /\ inflight[id].j > 0
        /\ inflight[id].box # cipher.box

\* C9: every decrypt call of a mask or RC4 cipher returns as many bytes
\* as it was given, and decrypting its output at the same offset returns
\* its source.
C9_Involution ==
    \A n \in 1..Len(calls) :
        StreamCall(n)
            => /\ calls[n].exc = "none"
               /\ Len(calls[n].out) = Len(calls[n].src)
               /\ n < Len(calls) /\ calls[n + 1].offset = calls[n].offset
                     /\ calls[n + 1].src = calls[n].out
                  => calls[n + 1].exc = "none" /\ calls[n + 1].out = calls[n].src

\* The same for the calls that return.
InvolutionOnReturn ==
    \A n \in 1..Len(calls) :
        StreamCall(n) /\ calls[n].exc = "none"
            => /\ Len(calls[n].out) = Len(calls[n].src)
               /\ n < Len(calls) /\ calls[n + 1].offset = calls[n].offset
                     /\ calls[n + 1].src = calls[n].out
                  => calls[n + 1].exc = "none" /\ calls[n + 1].out = calls[n].src

TeaFamily == {"QMC_TEACipher", "TC_TEACipher"}

\* the constructor was given a key of a wrong length or an odd round count
BadArgs ==
    /\ ctor.cls \in TeaFamily \cup {"QMCv2_RC4Cipher"}
    /\ ~ctor.args.key.isNone
    /\ IF ctor.cls \in TeaFamily
       THEN Len(ctor.args.key.bytes) # 16 \/ ctor.args.rounds % 2 = 1
       ELSE Len(ctor.args.key.bytes) = 0

\* C10: a TEA-family constructor given a key not 16 bytes long or an odd
\* round count, and the RC4 constructor given an empty key, raise
\* CipherGenerationError and leave no instance; so every instance, and
\* every instance a call runs on, holds a 16-byte key and an even round
\* count (TEA family) or a key of at least one byte (RC4).
C10_RejectedAtConstruction ==
    /\ ctor # NoCtor /\ BadArgs
          => /\ ctor.exc = "CipherGenerationError"
             /\ cipher = NoCipher /\ calls = <<>> /\ tc = NoCall
    /\ cipher.cls \in TeaFamily
          => /\ Len(cipher.key) = 16 /\ cipher.key_length = 16
             /\ cipher.rounds % 2 = 0
    /\ cipher.cls = "QMCv2_RC4Cipher"
          => Len(cipher.key) >= 1 /\ cipher.key_length = Len(cipher.key)
    /\ calls # <<>> \/ tc # NoCall => ctor.exc = "none" /\ cipher # NoCipher

C10_OddRoundsRejected ==
    /\ ctor # NoCtor /\ ctor.cls = "TC_TEACipher"
    /\ ~ctor.args.key.isNone /\ Len(ctor.args.key.bytes) = 16
    /\ ctor.args.rounds = 3
    /\ ctor.exc = "CipherGenerationError" /\ cipher = NoCipher

\* bit p of the byte v
Bit(v, p) == (v \div Pow2(p)) % 2 = 1

\* the byte whose set bits are those of S
Byte(S) ==
    LET RECURSIVE Sum(_)
        Sum(p) == IF p > 7 THEN 0
                  ELSE (IF p \in S THEN Pow2(p) ELSE 0) + Sum(p + 1)
    IN  Sum(0)

\* the 8-bit rotate-left of v by r: bit b of v lands on (b + r) mod 8
RotL8(v, r) == Byte({(b + r) % 8 : b \in {c \in 0..7 : Bit(v, c)}})

\* v shifted left by r within the byte, OR v shifted right by r: bit b
\* of v lands on b + r when that is below 8, and on b - r when b >= r
ShiftOr(v, r) ==
    Byte({b + r : b \in {c \in 0..7 : Bit(v, c) /\ c + r < 8}}
         \cup {b - r : b \in {c \in 0..7 : Bit(v, c) /\ c >= r}})

\* the byte and the rotate amount of a recorded mask computation
MaskByte(c) ==
    IF c.op = "_rotate" THEN c.value
    ELSE cipher.key[((FoldOffset(c.offset) * FoldOffset(c.offset) + 71214)
                        % cipher.key_length) + 1]

MaskAmount(c) ==
    IF c.op = "_rotate" THEN (c.bits + 4) % 8
    ELSE ((((FoldOffset(c.offset) * FoldOffset(c.offset) + 71214)
               % cipher.key_length) % 8) + 4) % 8

Counterpart_init ==
    IF ctor.cls = "QMCv1_ImprovedStaticMapCipher" THEN StaticMap_init
    ELSE IF ctor.cls = "QMCv2_ImprovedDynamicMapCipher"
    THEN DynamicMap_init(ctor.args.key)
    ELSE RC4_init(ctor.args.key)

SameOutcome(r, c) ==
    /\ (r.exc = "none") <=> (c.exc = "none")
    /\ r.exc = "none" => r.out = c.out

\* C12: each generator-style class is constructed from a key exactly
\* when its counterpart is, and each of its decrypt calls returns the
\* bytes the counterpart returns, or fails when the counterpart fails.
C12_ImprovedEquivalent ==
    ctor.cls \in ImprovedClasses
        => /\ (ctor.exc = "none") <=> (Counterpart_init.exc = "none")
           /\ \A n \in 1..Len(calls) :
                 SameOutcome(calls[n],
                             decrypt(Counterpart_init.self, calls[n].src,
                                     calls[n].offset))

\* The same where both classes are constructed.
ImprovedEquivalentOnceBuilt ==
    /\ ctor.cls \in ImprovedClasses
    /\ ctor.exc = "none" /\ Counterpart_init.exc = "none"
    => \A n \in 1..Len(calls) :
          SameOutcome(calls[n],
                      decrypt(Counterpart_init.self, calls[n].src, calls[n].offset))

\* the segment calls a recorded decrypt call of the RC4 cipher has made
Segs(n) == RC4Run(cipher, calls[n].src, calls[n].offset).segs

Walks(segs) == {i \in 1..Len(segs) : segs[i].fn = "another"}

FirstPasses(segs) == {i \in 1..Len(segs) : segs[i].fn = "1st"}

RC4Call(n) == cipher.cls = "QMCv2_RC4Cipher" /\ calls[n].op = "decrypt"

\* the 5120-byte segments holding a position >= 128 of the call's range
SegmentsTouched(c) ==
    {k \in (c.offset \div rc4_segment_size)
            ..((c.offset + Len(c.src)) \div rc4_segment_size) :
        \E p \in {c.offset, c.offset + Len(c.src) - 1,
                  rc4_first_segment_size, k * rc4_segment_size} :
            /\ p >= c.offset /\ p < c.offset + Len(c.src)
            /\ p >= rc4_first_segment_size
            /\ p \div rc4_segment_size = k}

\* the chunk of a walk lies in one segment, at positions from 128 on
InOneSegment(s) ==
    /\ s.offset >= rc4_first_segment_size
    /\ (s.offset % rc4_segment_size) + s.len <= rc4_segment_size

\* the walk has taken skipLen + len(chunk) steps, skip within 0..L-1
ExactSteps(s) ==
    /\ ~s.raised
    /\ get_segment_skip(cipher, s.offset \div rc4_segment_size)
          \in 0..(cipher.key_length - 1)
    /\ s.steps = skip_len_of(cipher, s.offset) + s.len

\* C13: every walk a decrypt call makes covers a chunk inside one
\* segment at positions >= 128 and takes exactly skipLen + len(chunk)
\* steps, skipLen = (offset mod 5120) + skip(offset div 5120) with skip
\* in 0..L-1, so at most 5120 + L - 1; and the call makes at most one
\* first-segment pass and one walk per segment touched.
C13_SeekCostBounded ==
    \A n \in 1..Len(calls) :
        RC4Call(n)
            => LET segs == Segs(n)
               IN  /\ \A i \in Walks(segs) :
                         /\ InOneSegment(segs[i])
                         /\ ExactSteps(segs[i])
                         /\ segs[i].steps
                               <= rc4_segment_size + cipher.key_length - 1
                   /\ Cardinality(FirstPasses(segs)) <= 1
                   /\ Cardinality(Walks(segs))
                         <= Cardinality(SegmentsTouched(calls[n]))

\* What stands: a walk that does not raise takes exactly skipLen +
\* len(chunk) steps, one that raises takes none; no walk takes more than
\* 5120 + L - 1; a call makes at most one first-segment pass, and one
\* walk per segment touched, or one walk when the buffer is empty.
SeekCostBoundedOnWalk ==
    \A n \in 1..Len(calls) :
        RC4Call(n)
            => LET segs == Segs(n)
               IN  /\ \A i \in Walks(segs) :
                         /\ InOneSegment(segs[i])
                         /\ IF segs[i].raised THEN segs[i].steps = 0
                            ELSE ExactSteps(segs[i])
                         /\ segs[i].steps
                               <= rc4_segment_size + cipher.key_length - 1
                   /\ Cardinality(FirstPasses(segs)) <= 1
                   /\ Cardinality(Walks(segs))
                         <= IF calls[n].src = <<>> THEN 1
                            ELSE Cardinality(SegmentsTouched(calls[n]))

\* a source of 5121 bytes from 5120 on has been decrypted in two walks,
\* of 5120 and of 1 byte
TwoSegmentsWalked ==
    /\ calls # <<>> /\ RC4Call(1) /\ calls[1].exc = "none"
    /\ calls[1].src = LongBuf
    /\ LET segs == Segs(1)
       IN  /\ Len(segs) = 2
           /\ segs[1].len = rc4_segment_size /\ segs[2].len = 1
           /\ segs[1].steps >= rc4_segment_size

====
